---- MODULE Spec2Model ----
(***************************************************************************)
(* Model of midi-clocked-notes.py: a MIDI Clock/Start/Stop to Note-On      *)
(* translator.  main() parses the arguments, opens an input and an output  *)
(* port, registers midi_callback on the input port and idles until a       *)
(* KeyboardInterrupt, after which both ports are closed.  midi_callback is *)
(* run by the input driver once per incoming message; it owns the counters *)
(* clock_count, bar_count and last_clock_time.                             *)
(*                                                                         *)
(* Time is counted in units of 1/TimeUnitsPerSecond seconds.  A BPM value  *)
(* is kept as the number print(f"BPM: {bpm:.2f}") shows, in hundredths.    *)
(***************************************************************************)
EXTENDS Integers, Sequences, FiniteSets, TLC

VARIABLES
    args,             \* the namespace parse_args_and_config() returned
    pc,               \* position of main()
    in_open,          \* midi_in port is open
    out_open,         \* midi_out port is open
    callback_set,     \* midi_in.set_callback(midi_callback) has run
    exit_code,        \* process exit status, None while running
    clock_count,      \* closure variable of main()
    bar_count,        \* closure variable of main()
    last_clock_time,  \* closure variable of main(), None until first stored
    status,           \* message[0] of the last delivered event, None before
    now,              \* what time.time() returned in the last callback, or None
    sent,             \* messages the last callback handed to midi_out, in order
    bpm,              \* the BPM the last callback printed (hundredths), or None
    raised,           \* the last callback ended in ZeroDivisionError
    twin              \* a second engine of the same configuration

vars == <<args, pc, in_open, out_open, callback_set, exit_code, clock_count,
          bar_count, last_clock_time, status, now, sent, bpm, raised, twin>>

\* Python's None, a value outside the range of every counter, time and BPM
None == 0 - 1

\* ------------------------------------------------------------------ bounds
MaxClocks == 16
MaxTime == 2
\* one time unit is half a second
TimeUnitsPerSecond == 2

\* --------------------------------------------------------- program constants
MIDI_CLOCK == 248
MIDI_START == 250
MIDI_STOP == 252
NOTE_ON == 144
CHANNEL_MASK == 15
VELOCITY == 100
CLOCKS_PER_QUARTER == 24

\* status bytes that are none of Clock, Start, Stop
OtherStatus == {249, 251, 254, 144}

\* ------------------------------------------------------------ bit operations
RECURSIVE BitAnd(_, _)
BitAnd(x, y) ==
    IF x = 0 \/ y = 0 THEN 0
    ELSE (IF x % 2 = 1 /\ y % 2 = 1 THEN 1 ELSE 0) + 2 * BitAnd(x \div 2, y \div 2)

RECURSIVE BitOr(_, _)
BitOr(x, y) ==
    IF x = 0 THEN y
    ELSE IF y = 0 THEN x
    ELSE (IF x % 2 = 1 \/ y % 2 = 1 THEN 1 ELSE 0) + 2 * BitOr(x \div 2, y \div 2)

\* Python's a % b for b # 0: the result has the sign of b
PyMod(a, b) == IF b > 0 THEN a % b ELSE 0 - ((0 - a) % (0 - b))

\* Python's truth value of last_clock_time: None and 0.0 are false
Truthy(t) == t # None /\ t # 0

\* variant of send_note_on: the channel taken as 0-based, without the - 1
send_note_on_ZeroBased(note, velocity, channel) ==
    <<BitOr(NOTE_ON, BitAnd(channel, CHANNEL_MASK)), note, velocity>>

\* ------------------------------------------------------------- send_note_on
send_note_on(note, velocity, channel) ==
    <<BitOr(NOTE_ON, BitAnd(channel - 1, CHANNEL_MASK)), note, velocity>>

\* ------------------------------------------------------------ configuration
\* clocks_per_bar = args.ticks_per_beat * args.beats_per_bar
clocks_per_bar(a) == a.ticks_per_beat * a.beats_per_bar

\* namespaces parse_args_and_config() can return: every option takes an int
AllArgs ==
    [ midi_channel   : {1, 15, 16},
      ticks_per_beat : {1, 2},
      beats_per_bar  : {0, 1, 2},
      note_bar_1     : {0, 10},
      note_bar_2     : {0, 11},
      note_bar_4     : {0, 12},
      note_bar_8     : {0, 13},
      note_bar_16    : {0, 14},
      note           : {0, 60},
      notes_per_bar  : {0, 3},
      note_start     : {0, 30},
      note_stop      : {0, 31},
      show_bpm       : BOOLEAN ]

\* one clock per bar
GridBase(a) == a.ticks_per_beat = 1 /\ a.beats_per_bar = 1

\* the default channel, Start note and Stop note
MsgBase(a) == a.midi_channel = 15 /\ a.note_start = 30 /\ a.note_stop = 31

BarNotesOf(a) ==
    <<a.note_bar_1, a.note_bar_2, a.note_bar_4, a.note_bar_8, a.note_bar_16>>

\* no bar note, the every-bar note alone, or all five
BarsFew(a) == BarNotesOf(a) \in {<<0, 0, 0, 0, 0>>, <<10, 0, 0, 0, 0>>, <<10, 11, 12, 13, 14>>}

\* The configurations explored: one group of options ranges over all its
\* values while the groups it does not interact with stay at a base value.
ArgsSet ==
    { a \in AllArgs :
        \/ GridBase(a) /\ MsgBase(a) /\ ~a.show_bpm
        \/ MsgBase(a) /\ BarsFew(a) /\ ~a.show_bpm
        \/ GridBase(a) /\ BarsFew(a) /\ a.note = 60 /\ a.notes_per_bar = 3 /\ ~a.show_bpm
        \/ MsgBase(a) /\ BarsFew(a) /\ a.ticks_per_beat = 1 /\ a.show_bpm }

\* ------------------------------------------------------------------- engine
\* the closure state of midi_callback, and what one invocation did
EngineInit ==
    [ clock_count |-> 0, bar_count |-> 0, last_clock_time |-> None,
      now |-> None, sent |-> <<>>, bpm |-> None, raised |-> FALSE ]

RoundHalfEven(n, d) ==
    LET q == n \div d
        r == n % d
    IN  IF 2 * r < d THEN q
        ELSE IF 2 * r > d THEN q + 1
        ELSE IF q % 2 = 0 THEN q ELSE q + 1

\* bpm = 60.0 / (delta * 24) if delta > 0 else 0, as "{bpm:.2f}" prints it
BpmOf(delta) ==
    IF delta > 0
    THEN RoundHalfEven(60 * 100 * TimeUnitsPerSecond, delta * CLOCKS_PER_QUARTER)
    ELSE 0

\* variant of CountStep: the pulse counter kept in three bits
CountStep_Wrapping(s) ==
    [s EXCEPT !.clock_count = (@ + 1) % 8, !.now = None, !.sent = <<>>,
              !.bpm = None, !.raised = FALSE]

\* clock_count += 1, at the start of a fresh invocation
CountStep(s) ==
    [s EXCEPT !.clock_count = @ + 1, !.now = None, !.sent = <<>>,
              !.bpm = None, !.raised = FALSE]

\* variant of BpmStep: a pulse that arrives with a non-positive delta is
\* taken for a duplicate and not counted
BpmStep_DropPulse(a, s, t) ==
    IF a.show_bpm
    THEN [s EXCEPT !.now = t,
                   !.bpm = IF Truthy(s.last_clock_time)
                           THEN BpmOf(t - s.last_clock_time) ELSE None,
                   !.clock_count = IF Truthy(s.last_clock_time) /\ t <= s.last_clock_time
                                   THEN @ - 1 ELSE @,
                   !.last_clock_time = t]
    ELSE s

\* variant of BpmStep: last_clock_time = now moved under "if delta > 0"
BpmStep_KeepStamp(a, s, t) ==
    IF a.show_bpm
    THEN [s EXCEPT !.now = t,
                   !.bpm = IF Truthy(s.last_clock_time)
                           THEN BpmOf(t - s.last_clock_time) ELSE None,
                   !.last_clock_time = IF Truthy(s.last_clock_time) /\ t <= s.last_clock_time
                                       THEN @ ELSE t]
    ELSE s

\* variant of BpmStep: last_clock_time = now moved under "if last_clock_time"
BpmStep_StampOnReport(a, s, t) ==
    IF a.show_bpm
    THEN [s EXCEPT !.now = t,
                   !.bpm = IF Truthy(s.last_clock_time)
                           THEN BpmOf(t - s.last_clock_time) ELSE None,
                   !.last_clock_time = IF Truthy(s.last_clock_time) THEN t ELSE @]
    ELSE s

\* if args.show_bpm: now = time.time(); ...; last_clock_time = now
BpmStep(a, s, t) ==
    IF a.show_bpm
    THEN [s EXCEPT !.now = t,
                   !.bpm = IF Truthy(s.last_clock_time)
                           THEN BpmOf(t - s.last_clock_time) ELSE None,
                   !.last_clock_time = t]
    ELSE s

\* variant of BarBoundary: the test made before clock_count is incremented
BarBoundary_BeforeIncrement(c, k) == PyMod(c - 1, k) = 0

\* clock_count % clocks_per_bar == 0, for clocks_per_bar # 0
BarBoundary(c, k) == PyMod(c, k) = 0

\* bar_count % args.notes_per_bar raises ZeroDivisionError
PrimaryRaises(a) == a.note # 0 /\ a.notes_per_bar = 0

\* if not args.note == 0 and bar_count % args.notes_per_bar == 0
PrimaryNote(a, b) ==
    IF a.note # 0 /\ PyMod(b, a.notes_per_bar) = 0 THEN <<a.note>> ELSE <<>>

\* if not args.note_bar_1 == 0
EveryBar(note) == IF note # 0 THEN <<note>> ELSE <<>>

\* variant of EveryNBars: elif-style, a bar that a longer period claims is
\* left to the longer period
EveryNBars_Exclusive(note, b, n) ==
    IF note # 0 /\ b % n = 0 /\ b % (2 * n) # 0 THEN <<note>> ELSE <<>>

\* if not args.note_bar_N == 0 and bar_count % N == 0
EveryNBars(note, b, n) == IF note # 0 /\ b % n = 0 THEN <<note>> ELSE <<>>

\* variant of BarNotes: the primary note's if statement placed after the others
BarNotes_PrimaryLast(a, b) ==
    EveryBar(a.note_bar_1)
    \o EveryNBars(a.note_bar_2, b, 2)
    \o EveryNBars(a.note_bar_4, b, 4)
    \o EveryNBars(a.note_bar_8, b, 8)
    \o EveryNBars(a.note_bar_16, b, 16)
    \o PrimaryNote(a, b)

\* the notes of one bar boundary, in the order of the if statements
BarNotes(a, b) ==
    PrimaryNote(a, b)
    \o EveryBar(a.note_bar_1)
    \o EveryNBars(a.note_bar_2, b, 2)
    \o EveryNBars(a.note_bar_4, b, 4)
    \o EveryNBars(a.note_bar_8, b, 8)
    \o EveryNBars(a.note_bar_16, b, 16)

SendAll(a, notes) ==
    [ i \in 1..Len(notes) |-> send_note_on(notes[i], VELOCITY, a.midi_channel) ]

\* if clock_count % clocks_per_bar == 0: bar_count += 1, then the bar notes
BarStep(a, s) ==
    LET k == clocks_per_bar(a)
    IN  IF k = 0 THEN [s EXCEPT !.raised = TRUE]
        ELSE IF ~BarBoundary(s.clock_count, k) THEN s
        ELSE IF PrimaryRaises(a)
             THEN [s EXCEPT !.bar_count = @ + 1, !.raised = TRUE]
        ELSE [s EXCEPT !.bar_count = @ + 1,
                       !.sent = SendAll(a, BarNotes(a, s.bar_count + 1))]

\* if status == MIDI_CLOCK
OnClock(a, s, t) == BarStep(a, BpmStep(a, CountStep(s), t))

\* variant of OnStart: a transport restart puts the counters back to zero
OnStart_Reset(a, s) ==
    [s EXCEPT !.now = None, !.bpm = None, !.raised = FALSE,
              !.clock_count = 0, !.bar_count = 0,
              !.sent = <<send_note_on(a.note_start, VELOCITY, a.midi_channel)>>]

\* elif status == MIDI_START
OnStart(a, s) ==
    [s EXCEPT !.now = None, !.bpm = None, !.raised = FALSE,
              !.sent = <<send_note_on(a.note_start, VELOCITY, a.midi_channel)>>]

\* elif status == MIDI_STOP
OnStop(a, s) ==
    [s EXCEPT !.now = None, !.bpm = None, !.raised = FALSE,
              !.sent = <<send_note_on(a.note_stop, VELOCITY, a.midi_channel)>>]

\* no branch of the if/elif chain is taken
OnOther(a, s) ==
    [s EXCEPT !.now = None, !.bpm = None, !.raised = FALSE, !.sent = <<>>]

\* variant of midi_callback: every system real-time byte that is neither
\* Start nor Stop is counted as a clock
midi_callback_AnyRealtime(a, s, st, t) ==
    IF st = MIDI_START THEN OnStart(a, s)
    ELSE IF st = MIDI_STOP THEN OnStop(a, s)
    ELSE IF st >= MIDI_CLOCK THEN OnClock(a, s, t)
    ELSE OnOther(a, s)

midi_callback(a, s, st, t) ==
    IF st = MIDI_CLOCK THEN OnClock(a, s, t)
    ELSE IF st = MIDI_START THEN OnStart(a, s)
    ELSE IF st = MIDI_STOP THEN OnStop(a, s)
    ELSE OnOther(a, s)

\* the engine the program's variables hold
Engine ==
    [ clock_count |-> clock_count, bar_count |-> bar_count,
      last_clock_time |-> last_clock_time, now |-> now, sent |-> sent,
      bpm |-> bpm, raised |-> raised ]

\* the driver runs midi_callback on a message with status byte st at time t
Deliver(st, t) ==
    LET r == midi_callback(args, Engine, st, t)
    IN  /\ in_open /\ callback_set
        /\ status' = st
        /\ clock_count' = r.clock_count
        /\ bar_count' = r.bar_count
        /\ last_clock_time' = r.last_clock_time
        /\ now' = r.now
        /\ sent' = r.sent
        /\ bpm' = r.bpm
        /\ raised' = r.raised
        /\ UNCHANGED <<args, pc, in_open, out_open, callback_set, exit_code, twin>>

\* ------------------------------------------------------------------- main()
Init ==
    /\ args \in ArgsSet
    /\ pc = "start"
    /\ in_open = FALSE
    /\ out_open = FALSE
    /\ callback_set = FALSE
    /\ exit_code = None
    /\ clock_count = 0
    /\ bar_count = 0
    /\ last_clock_time = None
    /\ status = None
    /\ now = None
    /\ sent = <<>>
    /\ bpm = None
    /\ raised = FALSE
    /\ twin = [engine |-> EngineInit, show_bpm |-> args.show_bpm, dropped |-> "no"]

engine_vars == <<clock_count, bar_count, last_clock_time, status, now, sent, bpm, raised>>

\* find_port on both ports; sys.exit(1) when one is missing
FindPorts ==
    /\ pc = "start"
    /\ \E found \in BOOLEAN :
         IF found THEN pc' = "open_in" /\ UNCHANGED exit_code
         ELSE pc' = "exited" /\ exit_code' = 1
    /\ UNCHANGED <<args, in_open, out_open, callback_set, engine_vars, twin>>

\* midi_in.open_port(in_index); midi_in.ignore_types(timing=False)
OpenIn ==
    /\ pc = "open_in"
    /\ pc' = "open_out"
    /\ in_open' = TRUE
    /\ UNCHANGED <<args, out_open, callback_set, exit_code, engine_vars, twin>>

\* midi_out.open_port(out_index)
OpenOut ==
    /\ pc = "open_out"
    /\ pc' = "set_callback"
    /\ out_open' = TRUE
    /\ UNCHANGED <<args, in_open, callback_set, exit_code, engine_vars, twin>>

\* midi_in.open_port raises: main() is left by the exception, outside any try
OpenInFails ==
    /\ pc = "open_in"
    /\ pc' = "exited"
    /\ exit_code' = 1
    /\ UNCHANGED <<args, in_open, out_open, callback_set, engine_vars, twin>>

\* midi_out.open_port raises: main() is left by the exception, outside any try
OpenOutFails ==
    /\ pc = "open_out"
    /\ pc' = "exited"
    /\ exit_code' = 1
    /\ UNCHANGED <<args, in_open, out_open, callback_set, engine_vars, twin>>

\* the counters are created, clocks_per_bar computed, the callback registered
SetCallback ==
    /\ pc = "set_callback"
    /\ pc' = "idle"
    /\ callback_set' = TRUE
    /\ clock_count' = 0
    /\ bar_count' = 0
    /\ last_clock_time' = None
    /\ UNCHANGED <<args, in_open, out_open, exit_code, status, now, sent, bpm, raised, twin>>

\* variant of Idle: the loop forgets the clock time while it waits
Idle_Watchdog ==
    /\ pc = "idle"
    /\ last_clock_time' = None
    /\ UNCHANGED <<args, pc, in_open, out_open, callback_set, exit_code,
                   clock_count, bar_count, status, now, sent, bpm, raised, twin>>

\* while True: time.sleep(.1)
Idle ==
    /\ pc = "idle"
    /\ UNCHANGED vars

\* except KeyboardInterrupt: print("Exiting.")
KeyboardInterrupt ==
    /\ pc = "idle"
    /\ pc' = "finally"
    /\ UNCHANGED <<args, in_open, out_open, callback_set, exit_code, engine_vars, twin>>

\* finally: midi_in.close_port()
CloseIn ==
    /\ pc = "finally"
    /\ pc' = "close_out"
    /\ in_open' = FALSE
    /\ UNCHANGED <<args, out_open, callback_set, exit_code, engine_vars, twin>>

\* midi_out.close_port(), then main() returns
CloseOut ==
    /\ pc = "close_out"
    /\ pc' = "exited"
    /\ out_open' = FALSE
    /\ exit_code' = 0
    /\ UNCHANGED <<args, in_open, callback_set, engine_vars, twin>>

\* --------------------------------------------------------- incoming messages
Clock ==
    /\ clock_count < MaxClocks
    /\ \E t \in 0..MaxTime : Deliver(MIDI_CLOCK, t)

Start == Deliver(MIDI_START, 0)

Stop == Deliver(MIDI_STOP, 0)

Other == \E st \in OtherStatus : Deliver(st, 0)

Next ==
    \/ FindPorts
    \/ OpenIn
    \/ OpenOut
    \/ OpenInFails
    \/ OpenOutFails
    \/ SetCallback
    \/ Idle
    \/ KeyboardInterrupt
    \/ CloseIn
    \/ CloseOut
    \/ Clock
    \/ Start
    \/ Stop
    \/ Other

Spec == Init /\ [][Next]_vars

\* ------------------------------------------------------------- two engines
\* A second engine built from the same namespace, except that its show_bpm
\* flag and the times its callback reads are its own.
TwinArgs == [args EXCEPT !.show_bpm = twin.show_bpm]

\* what the second engine keeps of one invocation: counters and messages
TwinView(r) == [r EXCEPT !.now = None, !.bpm = None]

\* both engines, already running, are handed the same message
DeliverBoth(st, t1, t2) ==
    LET r == midi_callback(args, Engine, st, t1)
        q == midi_callback(TwinArgs, twin.engine, st, t2)
    IN  /\ in_open /\ callback_set
        /\ status' = st
        /\ clock_count' = r.clock_count
        /\ bar_count' = r.bar_count
        /\ last_clock_time' = r.last_clock_time
        /\ now' = r.now
        /\ sent' = r.sent
        /\ bpm' = r.bpm
        /\ raised' = r.raised
        /\ twin' = [twin EXCEPT !.engine = TwinView(q),
                                !.dropped = IF @ = "just" THEN "past" ELSE @]
        /\ UNCHANGED <<args, pc, in_open, out_open, callback_set, exit_code>>

InitTwin ==
    /\ args \in { a \in ArgsSet : MsgBase(a) /\ BarsFew(a) }
    /\ pc = "idle"
    /\ in_open = TRUE
    /\ out_open = TRUE
    /\ callback_set = TRUE
    /\ exit_code = None
    /\ clock_count = 0
    /\ bar_count = 0
    /\ last_clock_time = None
    /\ status = None
    /\ now = None
    /\ sent = <<>>
    /\ bpm = None
    /\ raised = FALSE
    /\ \E b \in BOOLEAN : twin = [engine |-> EngineInit, show_bpm |-> b, dropped |-> "no"]

ClockBoth ==
    /\ clock_count < MaxClocks
    /\ \E t1, t2 \in 0..MaxTime : DeliverBoth(MIDI_CLOCK, t1, t2)

StartBoth == DeliverBoth(MIDI_START, 0, 0)

StopBoth == DeliverBoth(MIDI_STOP, 0, 0)

OtherBoth == \E st \in OtherStatus : DeliverBoth(st, 0, 0)

NextTwin ==
    \/ ClockBoth
    \/ StartBoth
    \/ StopBoth
    \/ OtherBoth

SpecTwin == InitTwin /\ [][NextTwin]_vars

\* ------------------------------------------------------------ a dropped clock
\* Two engines on one master stream; the second one misses one Clock message.
\* twin.dropped is "no" before the miss, "just" on the missed pulse, "past"
\* once a later message was delivered to both.
InitDrop ==
    /\ args \in { a \in ArgsSet : ~a.show_bpm }
    /\ pc = "idle"
    /\ in_open = TRUE
    /\ out_open = TRUE
    /\ callback_set = TRUE
    /\ exit_code = None
    /\ clock_count = 0
    /\ bar_count = 0
    /\ last_clock_time = None
    /\ status = None
    /\ now = None
    /\ sent = <<>>
    /\ bpm = None
    /\ raised = FALSE
    /\ twin = [engine |-> EngineInit, show_bpm |-> FALSE, dropped |-> "no"]

\* a Clock message of the master stream reaches the first engine only
DropClock ==
    LET r == midi_callback(args, Engine, MIDI_CLOCK, 0)
    IN  /\ in_open /\ callback_set
        /\ twin.dropped = "no"
        /\ clock_count < MaxClocks
        /\ status' = MIDI_CLOCK
        /\ clock_count' = r.clock_count
        /\ bar_count' = r.bar_count
        /\ last_clock_time' = r.last_clock_time
        /\ now' = r.now
        /\ sent' = r.sent
        /\ bpm' = r.bpm
        /\ raised' = r.raised
        /\ twin' = [twin EXCEPT !.engine.sent = <<>>, !.engine.raised = FALSE,
                                !.dropped = "just"]
        /\ UNCHANGED <<args, pc, in_open, out_open, callback_set, exit_code>>

NextDrop ==
    \/ ClockBoth
    \/ StartBoth
    \/ StopBoth
    \/ OtherBoth
    \/ DropClock

SpecDrop == InitDrop /\ [][NextDrop]_vars

\* ===================================================================== claims
\* what the claims call things
K == clocks_per_bar(args)

\* the last step was a Clock message whose pulse closed a bar
AtBarBoundary == status = MIDI_CLOCK /\ K # 0 /\ PyMod(clock_count, K) = 0

\* a message carrying this note number is among those of the last callback
Emitted(note) == \E i \in 1..Len(sent) : sent[i][2] = note

NotesSent == [ i \in 1..Len(sent) |-> sent[i][2] ]

\* ---------------------------------------------------------------------- C1
\* C1: for clocks_per_bar = k >= 1, in every reachable state bar_count equals
\* clock_count div k (so the bar counter moves exactly on the Clock events
\* that bring clock_count to a positive multiple of k, once per k clocks);
\* a Clock event sends bar notes only at such a count, and with only the
\* every-bar note enabled it sends that note at exactly those counts.
C1_BarEveryKClocks ==
    K >= 1 =>
        /\ bar_count = clock_count \div K
        /\ (status = MIDI_CLOCK /\ sent # <<>>) =>
               (clock_count > 0 /\ clock_count % K = 0)
        /\ (status = MIDI_CLOCK /\ args.note = 0 /\ args.note_bar_1 # 0) =>
               (Emitted(args.note_bar_1) <=> clock_count % K = 0)

\* four clocks per bar, only note_bar_1 = 10: the twelfth clock sends note 10
C1_Witness ==
    /\ K = 4 /\ args.note = 0
    /\ BarNotesOf(args) = <<10, 0, 0, 0, 0>>
    /\ status = MIDI_CLOCK /\ clock_count = 12 /\ bar_count = 3
    /\ NotesSent = <<10>>

\* ---------------------------------------------------------------------- C2
\* the periodic notes: the primary note and the five bar notes
Slots ==
    { [note |-> args.note,        period |-> args.notes_per_bar],
      [note |-> args.note_bar_1,  period |-> 1],
      [note |-> args.note_bar_2,  period |-> 2],
      [note |-> args.note_bar_4,  period |-> 4],
      [note |-> args.note_bar_8,  period |-> 8],
      [note |-> args.note_bar_16, period |-> 16] }

SlotEnabled(sl) == sl.note # 0 /\ sl.period # 0

\* C2: after any Clock event, the note of an enabled periodic note of period p
\* is among the messages sent if and only if the event closed a bar and the
\* new bar_count is a positive multiple of p; a disabled one is never sent.
C2_FiresIffMultiple ==
    status = MIDI_CLOCK =>
        \A sl \in Slots :
            IF SlotEnabled(sl)
            THEN Emitted(sl.note) <=>
                     (AtBarBoundary /\ bar_count > 0 /\ bar_count % sl.period = 0)
            ELSE ~Emitted(sl.note)

\* ---------------------------------------------------------------------- C4
\* C4: with clocks_per_bar >= 1, no Clock event ends in a division by zero,
\* whichever periods are configured as 0.
C4_NoDivisionByZero == K >= 1 => ~raised

\* ---------------------------------------------------------------------- C5
BarSlots ==
    << [note |-> args.note_bar_1,  period |-> 1],
       [note |-> args.note_bar_2,  period |-> 2],
       [note |-> args.note_bar_4,  period |-> 4],
       [note |-> args.note_bar_8,  period |-> 8],
       [note |-> args.note_bar_16, period |-> 16] >>

Qualifies(sl) == sl.note # 0 /\ bar_count % sl.period = 0

QualifyingBarNotes ==
    LET q == SelectSeq(BarSlots, Qualifies)
    IN  [ i \in 1..Len(q) |-> q[i].note ]

IsBarNote(n) == \E i \in 1..Len(BarSlots) : n # 0 /\ BarSlots[i].note = n

\* C5: on a bar boundary the bar notes sent are exactly the notes of the
\* qualifying bar subdivisions, each once, in increasing period order.
C5_AllQualifyingInOrder ==
    AtBarBoundary => SelectSeq(NotesSent, IsBarNote) = QualifyingBarNotes

\* ---------------------------------------------------------------------- C3
ConfiguredNotes ==
    { args.note, args.note_bar_1, args.note_bar_2, args.note_bar_4,
      args.note_bar_8, args.note_bar_16, args.note_start, args.note_stop }

CountersKept ==
    /\ clock_count' = clock_count
    /\ bar_count' = bar_count
    /\ last_clock_time' = last_clock_time

StartFrame ==
    Start => /\ Len(sent') = 1 /\ sent'[1][2] = args.note_start
             /\ ~raised'
             /\ CountersKept

StopFrame ==
    Stop => /\ Len(sent') = 1 /\ sent'[1][2] = args.note_stop
            /\ ~raised'
            /\ CountersKept

\* C3: every Start event sends exactly one message, carrying note_start, and
\* every Stop event exactly one, carrying note_stop, whatever the counters
\* and the configured note are; neither changes clock_count, bar_count or
\* last_clock_time.
C3_StartStopEmitOnce == [][StartFrame /\ StopFrame]_vars

\* a Start event in the middle of a run, with note_start configured as 0
C3_Witness ==
    /\ status = MIDI_START /\ args.note_start = 0
    /\ clock_count = 3 /\ bar_count = 3
    /\ NotesSent = <<0>>

\* ---------------------------------------------------------------------- C6
\* C6: two engines of the same configuration that are fed the same events
\* have sent the same messages in the same order and hold the same
\* clock_count and bar_count, whatever times each one reads and whether or
\* not each one displays the BPM.
C6_TwinEnginesAgree ==
    /\ twin.engine.sent = sent
    /\ twin.engine.clock_count = clock_count
    /\ twin.engine.bar_count = bar_count

\* the first engine displays the BPM and has just measured a non-positive
\* delta, the second does not read the time at all; both sent two bar notes
C6_Witness ==
    /\ args.show_bpm /\ ~twin.show_bpm
    /\ status = MIDI_CLOCK /\ bpm = 0
    /\ last_clock_time # twin.engine.last_clock_time
    /\ bar_count = 2 /\ Len(sent) >= 2
    /\ twin.engine.sent = sent

\* ---------------------------------------------------------------------- C7
\* C7: an event whose status byte is none of 0xF8, 0xFA, 0xFC sends nothing
\* and leaves clock_count, bar_count and last_clock_time as they were.
C7_OtherIgnored ==
    [][Other => (sent' = <<>> /\ ~raised' /\ CountersKept)]_vars

\* an unrecognised byte arrives after clocks were counted and timed
C7_Witness ==
    /\ status \in OtherStatus /\ status \notin {MIDI_CLOCK, MIDI_START, MIDI_STOP}
    /\ clock_count = 2 /\ bar_count = 2 /\ last_clock_time = 1
    /\ sent = <<>>

\* ---------------------------------------------------------------------- C8
\* C8: every message handed to the output is the three bytes
\* <<0x90 + (channel - 1), note, 100>>: for a channel in 1..16 the status
\* byte lies in 0x90..0x9F, the note is a configured one, the velocity 100.
C8_NoteOnBytes ==
    \A i \in 1..Len(sent) :
        /\ Len(sent[i]) = 3
        /\ sent[i][1] = 144 + (args.midi_channel - 1)
        /\ sent[i][1] \in 144..159
        /\ sent[i][2] \in ConfiguredNotes
        /\ sent[i][3] = 100

\* channel 16: the status byte is 0x9F
C8_Witness ==
    /\ args.midi_channel = 16
    /\ status = MIDI_CLOCK
    /\ Len(sent) >= 2 /\ sent[1] = <<159, 60, 100>>

\* ---------------------------------------------------------------------- C9
\* a Clock event that measured a delta <= 0 to the previous clock time
NonPositiveDelta ==
    /\ clock_count' = clock_count + 1
    /\ args.show_bpm
    /\ Truthy(last_clock_time)
    /\ now' <= last_clock_time

\* C9 (as stated): with show_bpm on, a Clock event whose measured delta is
\* zero or negative produces no BPM report.
C9_NoReportOnBadDelta == [][NonPositiveDelta => bpm' = None]_vars

\* the same Clock event, had it measured a positive delta
WithPositiveDelta == midi_callback(args, Engine, MIDI_CLOCK, last_clock_time + 1)

\* C9 (amended): with show_bpm on, a Clock event whose measured delta is zero
\* or negative reports a BPM of 0.00; the BPM step raises no error (an error
\* is raised only by a period of 0, whatever the delta), last_clock_time is
\* set to the time read, and clock_count, bar_count and the notes sent are
\* those of the same event with a positive delta.
C9_ZeroReportOnBadDelta ==
    [][NonPositiveDelta =>
          /\ bpm' = 0
          /\ last_clock_time' = now'
          /\ raised' => (K = 0 \/ (args.note # 0 /\ args.notes_per_bar = 0))
          /\ clock_count' = WithPositiveDelta.clock_count
          /\ bar_count' = WithPositiveDelta.bar_count
          /\ sent' = WithPositiveDelta.sent
          /\ raised' = WithPositiveDelta.raised]_vars

\* a clock read an earlier time than the clock before it, and closed a bar
C9_Witness ==
    /\ args.show_bpm /\ status = MIDI_CLOCK
    /\ bpm = 0 /\ now = 1 /\ last_clock_time = 1
    /\ bar_count = 2 /\ Len(sent) >= 2

\* --------------------------------------------------------------------- C10
\* C10: a configuration with clocks_per_bar <= 0 is rejected at startup: the
\* callback is never registered, no Clock event is processed, and the
\* process exits with a non-zero status.
C10_RejectedAtStartup ==
    K <= 0 =>
        /\ ~callback_set
        /\ status # MIDI_CLOCK
        /\ pc = "exited" => exit_code # 0

\* --------------------------------------------------------------------- C11
\* the callback ran on a message
CallbackStep == Clock \/ Start \/ Stop \/ Other

\* C11: once main() has caught the KeyboardInterrupt, no callback hands a
\* message to the output any more, whatever the interleaving of the input
\* driver with the shutdown steps.
C11_NoNoteAfterInterrupt ==
    [][(pc \in {"finally", "close_out", "exited"} /\ CallbackStep) => sent' = <<>>]_vars

\* --------------------------------------------------------------------- C12
\* C12: whenever the process has exited, on whichever path, no port that was
\* opened is still open.
C12_PortsClosedOnExit == pc = "exited" => (~in_open /\ ~out_open)

\* --------------------------------------------------------------------- C13
\* a Clock event handled by the callback
ClockStep == clock_count' = clock_count + 1

\* the printed BPM b (hundredths) is 60 / (delta * 24) to two decimals, for a
\* delta of d time units
IsBpmOfDelta(b, d) ==
    LET exact == 60 * 100 * TimeUnitsPerSecond
        denom == d * 24
    IN  /\ 2 * (b * denom - exact) <= denom
        /\ 2 * (exact - b * denom) <= denom

\* C13: with show_bpm on, a Clock event that arrives a positive delta after
\* the previous Clock event reports 60 / (delta * 24); two Clock events half
\* a second apart report 5.00.
C13_BpmOfPositiveDelta ==
    [][(ClockStep /\ args.show_bpm /\ last_clock_time # None /\ now' > last_clock_time) =>
          /\ bpm' # None
          /\ IsBpmOfDelta(bpm', now' - last_clock_time)
          /\ (2 * (now' - last_clock_time) = TimeUnitsPerSecond => bpm' = 500)]_vars

\* --------------------------------------------------------------------- C16
\* C16: a Clock event reports a BPM if and only if show_bpm is on and an
\* earlier Clock event was observed, whatever time that earlier event read.
C16_BpmIffEarlierClock ==
    status = MIDI_CLOCK => (bpm # None <=> (args.show_bpm /\ clock_count >= 2))

\* --------------------------------------------------------------------- C15
\* before the first Clock event: no timestamp, both counters at zero
AwaitingFirstClock == clock_count = 0 => (last_clock_time = None /\ bar_count = 0)

C14_SameNotesAfterDrop == twin.dropped = "past" => twin.engine.sent = sent

\* C14 (amended): from the dropped Clock event on, the engine stays exactly
\* one pulse behind the engine that missed nothing: its clock_count is lower
\* by one, its bar_count is that of one pulse earlier, and its bar notes are
\* sent one master pulse after a multiple of clocks_per_bar; the offset does
\* not grow and does not go away.  Start, Stop and ignored events are
\* handled alike by both.
C14_OnePulseBehind ==
    twin.dropped # "no" =>
        /\ twin.engine.clock_count = clock_count - 1
        /\ K >= 1 => /\ bar_count = clock_count \div K
                     /\ twin.engine.bar_count = (clock_count - 1) \div K
        /\ (K >= 1 /\ status = MIDI_CLOCK /\ twin.engine.sent # <<>>) =>
               (clock_count - 1) % K = 0
        /\ status # MIDI_CLOCK => twin.engine.sent = sent

\* two clocks per bar, one clock dropped earlier: at master pulse 5 the
\* engine that missed a clock closes its bar 2, the other closes none
C14_Witness ==
    /\ twin.dropped = "past" /\ status = MIDI_CLOCK
    /\ K = 2 /\ clock_count = 5 /\ twin.engine.clock_count = 4
    /\ sent = <<>> /\ Len(twin.engine.sent) >= 2

\* --------------------------------------------------------------------- C17
\* a step changed a counter, the timestamp or the messages last sent
EngineChanged ==
    \/ clock_count' # clock_count
    \/ bar_count' # bar_count
    \/ last_clock_time' # last_clock_time
    \/ sent' # sent

\* C17: the engine state has a single writer: every step that changes
\* clock_count, bar_count, last_clock_time or the messages sent is a run of
\* the callback, and a step of the idle loop changes none of them.
C17_SingleWriter ==
    [][(EngineChanged => CallbackStep) /\ (Idle => ~EngineChanged)]_vars

\* the idle loop is running while the callback has counted, timed and sent
C17_Witness ==
    /\ pc = "idle" /\ status = MIDI_CLOCK
    /\ clock_count = 2 /\ last_clock_time = 2 /\ Len(sent) >= 2

\* --------------------------------------------------------------------- C18
\* C18: on a bar boundary on which the primary note is sent, it is the first
\* message, ahead of every bar note, whatever notes_per_bar is.
C18_PrimaryFirst ==
    (AtBarBoundary /\ args.note # 0 /\ Emitted(args.note)) =>
        /\ NotesSent[1] = args.note
        /\ \A i \in 2..Len(sent) : NotesSent[i] # args.note

\* bar 12 with notes_per_bar = 3: the primary note, then periods 1, 2 and 4
C18_Witness ==
    /\ status = MIDI_CLOCK /\ bar_count = 12 /\ args.notes_per_bar = 3
    /\ NotesSent = <<60, 10, 11, 12>>

\* --------------------------------------------------------------------- C19
\* C19: after any Clock event, if the note of a bar period was sent then the
\* note of every enabled shorter bar period was sent by the same event.
C19_Nested ==
    status = MIDI_CLOCK =>
        \A i, j \in 1..Len(BarSlots) :
            (i < j /\ BarSlots[i].note # 0 /\ BarSlots[j].note # 0
                   /\ Emitted(BarSlots[j].note))
                => Emitted(BarSlots[i].note)

\* bar 16 with the 2- and 8-bar notes disabled: periods 1, 4 and 16 are sent
C19_Witness ==
    /\ status = MIDI_CLOCK /\ bar_count = 16
    /\ BarNotesOf(args) = <<10, 0, 12, 0, 14>>
    /\ SelectSeq(NotesSent, IsBarNote) = <<10, 12, 14>>

====
